---- MODULE Spec2Model ----
(***************************************************************************)
(* A model of the voice-to-action backend of flow-hackathon.               *)
(*                                                                         *)
(*   SessionSpec  the SQLite session store of session_manager.py           *)
(*   FlowSpec     POST /message: the backend's process_message, the A2A    *)
(*                orchestrator, the router, the sequential task executor,  *)
(*                the synthesis agent and the text-to-speech call          *)
(*   FaceSpec     the frame loop of face_control/face.py: head gestures,   *)
(*                wide eyes, winks, the two modes and the keys             *)
(*   VoiceSpec    the transcription handlers of voice_recognition.py: the  *)
(*                wake words, the waits and the backend-processing flag    *)
(*   PlaySpec     main_window.py: the GUI thread and the play_audio thread *)
(*                around a command, with the recogniser's final handler    *)
(*   WebSpec      WebUseAgent.execute_web_task of web_use_agent.py: the    *)
(*                tool-calling agent, its fallback and the outer handler   *)
(***************************************************************************)
EXTENDS Integers, Sequences, FiniteSets, TLC

VARIABLES
    table,      \* the sessions table: session_id -> row
    now         \* the wall clock read by datetime.now()

VARIABLES
    a2a_orchestrator,       \* the global orchestrator is initialised
    chat_model,             \* the global simple chat model is initialised
    airia_api_key,          \* GoogleAssistantAgent.api_key is set
    conversation_history,   \* the global InMemoryChatMessageHistory
    pc,                     \* where the handler of POST /message stands
    message,                \* request.message of the request being served
    routing_decision,       \* what route_request returned
    tasks,                  \* routing_decision.content.tasks
    results,                \* execute_tasks: results
    successful_tasks,       \* execute_tasks: successful_tasks
    failed_tasks,           \* execute_tasks: failed_tasks
    a2a_result,             \* what A2AOrchestrator.process_message returned
    http,                   \* the reply to POST /message
    calls                   \* the agent and service calls made for the request

VARIABLES
    scenario,                       \* what the person in front of the camera varies
    clock,                          \* time.time(), in tenths of a second
    current_mode,                   \* GESTURE_MODE or MOUSE_MODE
    last_mode_toggle,
    last_gesture_time,
    last_wide_eyes_time,
    gesture_center_x,               \* Unset (None) or <<x>>
    gesture_active,
    last_gesture_direction,
    baseline_ear,                   \* Unset (None) or <<ear>>
    wide_eyes_calibration_frames,
    last_left_click,
    last_right_click,
    out,                            \* what the last step detected and executed
    last_emit,                      \* kind -> Unset or <<time of its last emission>>
    min_gap,                        \* kind -> Unset or <<smallest gap of two emissions>>
    head_blocked,                   \* direction emitted last, not yet re-armed
    eye_frames                      \* frames consumed by eye calibration

VARIABLES
    is_processing_backend,
    current_text_buffer,
    waiting_for_command,
    waiting_for_orange,
    waiting_for_dictation,      \* set at line 188, FALSE while not yet an attribute
    wake_word_detected_time,    \* Unset or <<time.time() at the bare wake word>>
    wall,                       \* time.time() of the recogniser, in seconds
    signals,                    \* the Qt signals emitted by the last step
    heard                       \* the transcription the last step handled

VARIABLES
    gui_thread,         \* what the GUI thread of MainWindow is doing
    play_audio,         \* where the play_audio thread stands
    music_busy          \* pygame.mixer.music.get_busy()

VARIABLES
    mcp_initialized,    \* WebUseAgent._mcp_initialized
    mcp_tools,          \* WebUseAgent.mcp_tools is not empty
    web_pc,             \* where execute_web_task stands
    exc,                \* the exception on its way to the outer handler
    agent_error,        \* what the failed agent run said, or Unset
    fallback_reason,    \* why the plain model call is made after the agent
    fallback_failed,    \* the plain model call after the agent failed too
    agent_runs,         \* runs of the tool-calling agent for the request
    model_calls,        \* plain chat_model.ainvoke calls for the request
    web_returned,       \* what execute_web_task returned
    web_tasks           \* requests served so far

sessVars == <<table, now>>

webVars == <<mcp_initialized, mcp_tools, web_pc, exc, agent_error,
             fallback_reason, fallback_failed, agent_runs, model_calls,
             web_returned, web_tasks>>

playVars == <<gui_thread, play_audio, music_busy>>

voiceVars == <<is_processing_backend, current_text_buffer, waiting_for_command,
               waiting_for_orange, waiting_for_dictation,
               wake_word_detected_time, wall, signals, heard>>

faceVars == <<scenario, clock, current_mode, last_mode_toggle, last_gesture_time,
              last_wide_eyes_time, gesture_center_x, gesture_active,
              last_gesture_direction, baseline_ear,
              wide_eyes_calibration_frames, last_left_click,
              last_right_click, out, last_emit, min_gap, head_blocked,
              eye_frames>>

flowVars == <<a2a_orchestrator, chat_model, airia_api_key,
              conversation_history, pc, message, routing_decision, tasks,
              results, successful_tasks, failed_tasks, a2a_result, http,
              calls>>

vars == <<sessVars, flowVars, faceVars, voiceVars, playVars, webVars>>

----------------------------------------------------------------------------
(* Bounds of the session model *)

MaxAgeHours == 1      \* cleanup_old_sessions is called with 0..MaxAgeHours
MaxHours    == 1      \* hours the clock can advance after start-up
MaxCommands == 2      \* commands added to one session after its creation or import

(* Program constant: the history cap of add_command_to_session *)
HistoryLimit == 50

SessionIds == {"s1", "s2"}
Commands   == {"go"}
None       == "None"
UrlArgs    == {None, "https://a"}

(* get_session's None: a value that is no BrowserSession *)
NoSession == [none |-> TRUE]

(* A datetime: whole hours since the epoch of the model and the microsecond  *)
(* field, which is zero or not.  The clock starts MaxAgeHours after the      *)
(* epoch, so that every cutoff is a valid datetime.                          *)
StartHour == MaxAgeHours
Micros    == {0, 500000}
Times     == [h : 0..(StartHour + MaxHours), us : Micros]
StartTime == [h |-> StartHour, us |-> 0]

(* datetime comparison *)
Before(t1, t2) == t1.h < t2.h \/ (t1.h = t2.h /\ t1.us < t2.us)

(* datetime - timedelta(hours = n): the microsecond field is kept *)
MinusHours(t, n) == [h |-> t.h - n, us |-> t.us]

(* datetime.isoformat(): fixed-width fields down to the second, followed by  *)
(* the microseconds only when they are not zero.  A string is modelled as    *)
(* the sequence of its fields.                                               *)
isoformat(t) == IF t.us = 0 THEN <<t.h>> ELSE <<t.h, t.us>>

(* SQLite's comparison of two TEXT values (BINARY collation): the first      *)
(* differing position decides, and a proper prefix is the smaller string.    *)
RECURSIVE TextLess(_, _)
TextLess(a, b) ==
    IF b = <<>> THEN FALSE
    ELSE IF a = <<>> THEN TRUE
    ELSE IF Head(a) # Head(b) THEN Head(a) < Head(b)
    ELSE TextLess(Tail(a), Tail(b))

(* command_history[-n:] *)
LastN(h, n) == IF Len(h) > n THEN SubSeq(h, Len(h) - n + 1, Len(h)) ELSE h

(* A history of n copies of one command, as found in a backup *)
Repeat(c, n) == [i \in 1..n |-> c]

(* The command histories of the backups handed to import_session_state *)
ImportHistories ==
    {<<>>, Repeat("old", HistoryLimit), Repeat("old", HistoryLimit + 1)}

(* The commands of a history that add_command_to_session appended *)
Added(h) == Cardinality({i \in 1..Len(h) : h[i] \in Commands})

----------------------------------------------------------------------------
(* Bounds of the message flow *)

MaxTasks    == 2      \* tasks in one routing decision
MaxHistory  == 2      \* a request is accepted while the history is shorter

Whitespace == {" "}

(* Request messages: empty, whitespace only, plain, padded with whitespace *)
Messages == {<<>>, <<" ">>, <<" ", " ">>, <<"x">>, <<" ", "x", " ">>}

(* What an exception of an external service says *)
ErrorTexts == {"overloaded"}

(* An Optional[...] object that is None *)
Null == [none |-> TRUE]

(* The reply of a request that is still being served *)
NoReply == [code |-> 0]

----------------------------------------------------------------------------
(* Bounds of the face controller *)

MaxElapsed == 15      \* tenths of a second the clock can advance after start-up

(* The landmark values of the frames, around the thresholds of the         *)
(* detectors                                                                 *)
NoseXs        == {-16, 0, 7, 8, 15, 16}
HeadRotations == {2, 3}
Ears          == {20, 28, 40, 44}

(* A head that looks at the camera, a head turned to the right, a head       *)
(* rotation that lets winks through, an eye at rest, a winking eye and the   *)
(* open eye next to it                                                       *)
CenterX    == 0
TurnedX    == 16
OkRotation == 2
RestEar    == 32
WinkEar    == 20
OpenEar    == 44

----------------------------------------------------------------------------
(* session_manager.py *)

BrowserSession(sid, created, accessed, history, url, active) ==
    [session_id |-> sid, created_at |-> created, last_accessed |-> accessed,
     command_history |-> history, current_url |-> url, is_active |-> active]

(* INSERT OR REPLACE INTO sessions *)
_save_session(tbl, session) ==
    [s \in (DOMAIN tbl) \cup {session.session_id} |->
        IF s = session.session_id THEN session ELSE tbl[s]]

(* SELECT * FROM sessions WHERE session_id = ? AND is_active = 1 *)
get_session(tbl, sid) ==
    IF sid \in DOMAIN tbl /\ tbl[sid].is_active THEN tbl[sid] ELSE NoSession

(* SELECT * FROM sessions WHERE is_active = 1 (as a set of sessions) *)
list_active_sessions(tbl) ==
    {tbl[s] : s \in {x \in DOMAIN tbl : tbl[x].is_active}}

(* A WHERE clause that also selects the rows accessed at the cutoff *)
OlderOrAt(row, cutoff) ==
    ~ TextLess(isoformat(cutoff), isoformat(row.last_accessed))

(* WHERE last_accessed < ? with the cutoff bound as an ISO string *)
OlderThan(row, cutoff) ==
    TextLess(isoformat(row.last_accessed), isoformat(cutoff))

(* DELETE FROM sessions WHERE last_accessed < ? *)
DeleteOlder(tbl, cutoff) ==
    [s \in {x \in DOMAIN tbl : ~ OlderThan(tbl[x], cutoff)} |-> tbl[s]]

(* UPDATE sessions SET is_active = 0 WHERE last_accessed < ? *)
MarkInactive(tbl, cutoff) ==
    [s \in DOMAIN tbl |->
        IF OlderThan(tbl[s], cutoff)
        THEN [tbl[s] EXCEPT !.is_active = FALSE]
        ELSE tbl[s]]

create_session(sid) ==
    /\ table' = _save_session(table,
                    BrowserSession(sid, now, now, <<>>, None, TRUE))
    /\ UNCHANGED <<now, flowVars, faceVars, voiceVars, playVars, webVars>>

update_session(sid) ==
    /\ get_session(table, sid) # NoSession
    /\ LET session == get_session(table, sid)
       IN  table' = _save_session(table, [session EXCEPT !.last_accessed = now])
    /\ UNCHANGED <<now, flowVars, faceVars, voiceVars, playVars, webVars>>

add_command_to_session(sid, command, url) ==
    /\ LET session == get_session(table, sid)
       IN  IF session # NoSession
           THEN /\ Added(session.command_history) < MaxCommands
                /\ LET appended == Append(session.command_history, command)
                       s1 == [session EXCEPT
                                !.command_history =
                                    IF Len(appended) > HistoryLimit
                                    THEN LastN(appended, HistoryLimit)
                                    ELSE appended,
                                !.current_url =
                                    IF url # None THEN url ELSE @,
                                !.last_accessed = now]
                   IN  table' = _save_session(table, s1)
           ELSE UNCHANGED table
    /\ UNCHANGED <<now, flowVars, faceVars, voiceVars, playVars, webVars>>

import_session_state(sid, created, history, url) ==
    /\ table' = _save_session(table,
                    BrowserSession(sid, created, now, history, url, TRUE))
    /\ UNCHANGED <<now, flowVars, faceVars, voiceVars, playVars, webVars>>

cleanup_old_sessions(max_age_hours) ==
    /\ LET cutoff_time == MinusHours(now, max_age_hours)
       IN  table' = MarkInactive(table, cutoff_time)
    /\ UNCHANGED <<now, flowVars, faceVars, voiceVars, playVars, webVars>>

(* Time passes between two calls *)
Tick ==
    /\ \E t \in Times : Before(now, t) /\ now' = t
    /\ UNCHANGED <<table, flowVars, faceVars, voiceVars, playVars, webVars>>

----------------------------------------------------------------------------
(* a2a_models.py *)

TaskTypes == {"web_use", "google_assistant"}
TaskIds   == {None, "t1"}

Task == [task_type : TaskTypes, task_id : TaskIds]

(* The task lists a routing decision can carry *)
TaskLists == UNION {[1..n -> Task] : n \in 0..MaxTasks}

RouterDecision(type, response, tasklist) ==
    [decision_type |-> type, response |-> response, tasks |-> tasklist]

TaskResult(id, type, success, result, error) ==
    [task_id |-> id, task_type |-> type, success |-> success,
     result |-> result, error_message |-> error]

TaskExecutionSummary(total, successful, failed, res) ==
    [total_tasks |-> total, successful_tasks |-> successful,
     failed_tasks |-> failed, results |-> res]

A2AFlowResult(type, response, summary) ==
    [flow_type |-> type, final_response |-> response,
     execution_summary |-> summary]

AiriaResponse(success, response, error) ==
    [success |-> success, response |-> response, error_message |-> error]

WebUseResponse(success, result, error) ==
    [success |-> success, result |-> result, error_message |-> error]

HumanMessage(content) == [type |-> "human", content |-> content]
AIMessage(content)    == [type |-> "ai", content |-> content]

----------------------------------------------------------------------------
(* router_agent.py *)

(* What the structured-output model does when invoked *)
RouterReplies ==
    {[kind |-> "final_response", response |-> "answer", tasks |-> <<>>, error |-> None]}
    \cup {[kind |-> "task_list", response |-> None, tasks |-> ts, error |-> None] :
            ts \in TaskLists}
    \cup {[kind |-> "raise", response |-> None, tasks |-> <<>>, error |-> e] :
            e \in ErrorTexts}

(* The except clause: a final_response decision that apologises *)
RouterFallback(e) ==
    RouterDecision("final_response",
        "I apologize, but I encountered an error processing your request: " \o e,
        <<>>)

route_request(reply) ==
    IF reply.kind = "raise"
    THEN RouterFallback(reply.error)
    ELSE RouterDecision(reply.kind, reply.response, reply.tasks)

----------------------------------------------------------------------------
(* google_assistant_agent.py and web_use_agent.py, as the executor sees them *)

AssistantOutcomes == {"200", "http_error", "timeout", "error"}
WebOutcomes       == {"ok", "error"}

execute_assistant_task(key, outcome, e) ==
    IF ~ key
    THEN AiriaResponse(FALSE, "", "Missing AIRIA_API_KEY environment variable")
    ELSE CASE outcome = "200" ->
                AiriaResponse(TRUE, "assistant answer", None)
           [] outcome = "http_error" ->
                AiriaResponse(FALSE, "", "Airia API error: HTTP 500 - " \o e)
           [] outcome = "timeout" ->
                AiriaResponse(FALSE, "", "Airia API request timed out")
           [] OTHER ->
                AiriaResponse(FALSE, "", "Google Assistant task failed: " \o e)

execute_web_task(outcome, e) ==
    IF outcome = "ok"
    THEN WebUseResponse(TRUE, "web result", None)
    ELSE WebUseResponse(FALSE, "", "Web task failed: " \o e)

----------------------------------------------------------------------------
(* task_executor.py *)

(* f"task_{i}_{uuid}": the random suffix is left out *)
GenerateTaskId(i) == "task_" \o ToString(i)

(* A wrapper that drops the agent's error message *)
_execute_web_task_no_error(task, web_response) ==
    TaskResult(task.task_id, task.task_type, web_response.success,
               web_response.result, None)

_execute_web_task(task, web_response) ==
    TaskResult(task.task_id, task.task_type, web_response.success,
               web_response.result, web_response.error_message)

_execute_assistant_task(task, assistant_response) ==
    TaskResult(task.task_id, task.task_type, assistant_response.success,
               assistant_response.response, assistant_response.error_message)

(* The outcomes of the agent call a task leads to *)
OutcomesOf(task) ==
    IF task.task_type = "web_use" THEN WebOutcomes ELSE AssistantOutcomes

(* One call of an agent or service, as recorded in calls: who was called,   *)
(* for which task of the list (0: none) and what the service behind it did  *)
Call(callee, index, outcome) ==
    [callee |-> callee, task |-> index, outcome |-> outcome]

(* A summary that counts only the successful tasks *)
execute_tasks_summary_miscount ==
    TaskExecutionSummary(successful_tasks, successful_tasks, failed_tasks,
                         results)

(* After the loop: the summary execute_tasks returns *)
execute_tasks_summary ==
    TaskExecutionSummary(Len(tasks), successful_tasks, failed_tasks, results)

(* A loop that leaves one task short *)
AfterTaskOffByOne(i, n) == IF i + 1 < n THEN "exec" ELSE "synth"

(* What the loop does after an iteration: go on, or leave the loop *)
AfterTask(i, n) == IF i < n THEN "exec" ELSE "synth"

(* One iteration of the loop of execute_tasks *)
execute_task(outcome, e) ==
    /\ pc = "exec"
    /\ LET i       == Len(results) + 1
           task_id == IF tasks[i].task_id # None
                      THEN tasks[i].task_id ELSE GenerateTaskId(i)
           task    == [tasks[i] EXCEPT !.task_id = task_id]
           result  == IF task.task_type = "web_use"
                      THEN _execute_web_task(task, execute_web_task(outcome, e))
                      ELSE _execute_assistant_task(task,
                              execute_assistant_task(airia_api_key, outcome, e))
       IN  /\ outcome \in OutcomesOf(task)
           /\ tasks' = [tasks EXCEPT ![i] = task]
           /\ results' = Append(results, result)
           /\ successful_tasks' =
                    IF result.success THEN successful_tasks + 1 ELSE successful_tasks
           /\ failed_tasks' =
                    IF result.success THEN failed_tasks ELSE failed_tasks + 1
           /\ calls' = Append(calls, Call(task.task_type, i, outcome))
           /\ pc' = AfterTask(i, Len(tasks))
    /\ UNCHANGED <<sessVars, faceVars, voiceVars, playVars, webVars, a2a_orchestrator, chat_model, airia_api_key,
                   conversation_history, message, routing_decision,
                   a2a_result, http>>

----------------------------------------------------------------------------
(* final_answer_agent.py *)

SynthesisReplies ==
    {[kind |-> "ok", response |-> "synthesis", error |-> None]}
    \cup {[kind |-> "raise", response |-> None, error |-> e] : e \in ErrorTexts}

(* A fallback that does not say what went wrong *)
create_final_response_plain(reply) ==
    IF reply.kind = "raise"
    THEN "I apologize, but I encountered an error while processing your request"
    ELSE reply.response

(* FinalAgentResponse.response, the except clause included *)
create_final_response(reply) ==
    IF reply.kind = "raise"
    THEN "I apologize, but I encountered an error while processing your request: "
            \o reply.error
    ELSE reply.response

----------------------------------------------------------------------------
(* optimized_browser_agent_api.py and a2a_orchestrator.py *)

RECURSIVE lstrip(_)
lstrip(m) ==
    IF m # <<>> /\ Head(m) \in Whitespace THEN lstrip(Tail(m)) ELSE m

RECURSIVE rstrip(_)
rstrip(m) ==
    IF m # <<>> /\ m[Len(m)] \in Whitespace
    THEN rstrip(SubSeq(m, 1, Len(m) - 1)) ELSE m

(* A check of the raw message: if not request.message *)
strip_nothing(m) == m

(* str.strip() *)
strip(m) == rstrip(lstrip(m))

(* MessageResponse *)
MessageResponse(status, response, audio_url) ==
    [code |-> 200, status |-> status, response |-> response,
     audio_url |-> audio_url]

(* raise HTTPException(status_code, detail) out of the endpoint *)
HTTPError(status_code, detail) == [code |-> status_code, detail |-> detail]

(* The except clause of send_message, given str(e) *)
ErrorResponse(text) == MessageResponse("error", "Error: " \o text, None)

(* process_message, after the A2A flow returned: the reply is added to the    *)
(* history and returned; send_message goes on to text-to-speech               *)
ReturnA2A(result) ==
    /\ a2a_result' = result
    /\ conversation_history' =
            Append(conversation_history, AIMessage(result.final_response))
    /\ pc' = "tts"

(* POST /message *)
send_message(m) ==
    /\ pc = "idle"
    /\ Len(conversation_history) < MaxHistory
    /\ message' = m
    /\ IF strip(m) = <<>>
       THEN /\ http' = HTTPError(400, "Message cannot be empty")
            /\ pc' = "done"
            /\ UNCHANGED conversation_history
       ELSE /\ conversation_history' =
                    Append(conversation_history, HumanMessage(m))
            /\ IF a2a_orchestrator
               THEN pc' = "route" /\ UNCHANGED http
               ELSE IF chat_model
               THEN pc' = "chat" /\ UNCHANGED http
               ELSE /\ http' = ErrorResponse(
                        "500: Error processing message: 500: Neither A2A flow nor chat model initialized")
                    /\ pc' = "done"
    /\ UNCHANGED <<sessVars, faceVars, voiceVars, playVars, webVars, a2a_orchestrator, chat_model, airia_api_key,
                   routing_decision, tasks, results, successful_tasks,
                   failed_tasks, a2a_result, calls>>

(* A comparison with the wrong literal *)
RoutesDirectTypo(decision) == decision.decision_type = "direct_response"

(* A decision the orchestrator answers without running tasks *)
RoutesDirect(decision) == decision.decision_type = "final_response"

(* A2AOrchestrator.process_message, step 1 *)
route(reply) ==
    /\ pc = "route"
    /\ LET decision == route_request(reply)
       IN  /\ routing_decision' = decision
           /\ calls' = Append(calls, Call("router", 0, reply.kind))
           /\ IF RoutesDirect(decision)
              THEN /\ ReturnA2A(A2AFlowResult("direct_response",
                                              decision.response, Null))
                   /\ UNCHANGED tasks
              ELSE /\ tasks' = decision.tasks
                   /\ pc' = AfterTask(0, Len(decision.tasks))
                   /\ UNCHANGED <<a2a_result, conversation_history>>
    /\ UNCHANGED <<sessVars, faceVars, voiceVars, playVars, webVars, a2a_orchestrator, chat_model, airia_api_key, message,
                   results, successful_tasks, failed_tasks, http>>

(* A2AOrchestrator.process_message, step 3 *)
synthesize(reply) ==
    /\ pc = "synth"
    /\ calls' = Append(calls, Call("synthesis", 0, reply.kind))
    /\ ReturnA2A(A2AFlowResult("task_execution", create_final_response(reply),
                               execute_tasks_summary))
    /\ UNCHANGED <<sessVars, faceVars, voiceVars, playVars, webVars, a2a_orchestrator, chat_model, airia_api_key, message,
                   routing_decision, tasks, results, successful_tasks,
                   failed_tasks, http>>

ChatReplies ==
    {[kind |-> "ok", content |-> "chat reply", error |-> None]}
    \cup {[kind |-> "raise", content |-> None, error |-> e] : e \in ErrorTexts}

(* process_message without an orchestrator: the simple chat model *)
chat(reply) ==
    /\ pc = "chat"
    /\ calls' = Append(calls, Call("chat", 0, reply.kind))
    /\ IF reply.kind = "ok"
       THEN /\ conversation_history' =
                    Append(conversation_history, AIMessage(reply.content))
            /\ a2a_result' = A2AFlowResult("chat", reply.content, Null)
            /\ pc' = "tts"
            /\ UNCHANGED http
       ELSE /\ http' = ErrorResponse("500: Error processing message: " \o reply.error)
            /\ pc' = "done"
            /\ UNCHANGED <<conversation_history, a2a_result>>
    /\ UNCHANGED <<sessVars, faceVars, voiceVars, playVars, webVars, a2a_orchestrator, chat_model, airia_api_key, message,
                   routing_decision, tasks, results, successful_tasks,
                   failed_tasks>>

TtsOutcomes == {"url", "none", "raise"}

(* A wrapper that hands on whatever the service call ended with *)
generate_tts_audio_unguarded(outcome) ==
    IF outcome = "none" THEN None ELSE "https://audio"

(* generate_tts_audio: the URL of the service, None when the service gave   *)
(* none or raised                                                            *)
generate_tts_audio(outcome) ==
    IF outcome = "url" THEN "https://audio" ELSE None

(* send_message, after process_message returned *)
tts(outcome) ==
    /\ pc = "tts"
    /\ calls' = Append(calls, Call("tts", 0, outcome))
    /\ http' = MessageResponse("success", a2a_result.final_response,
                               generate_tts_audio(outcome))
    /\ pc' = "done"
    /\ UNCHANGED <<sessVars, faceVars, voiceVars, playVars, webVars, a2a_orchestrator, chat_model, airia_api_key,
                   conversation_history, message, routing_decision, tasks,
                   results, successful_tasks, failed_tasks, a2a_result>>

(* The state of a handler that has not received its request *)
HandlerIdle ==
    /\ pc = "idle"
    /\ message = <<>>
    /\ routing_decision = Null
    /\ tasks = <<>>
    /\ results = <<>>
    /\ successful_tasks = 0
    /\ failed_tasks = 0
    /\ a2a_result = Null
    /\ http = NoReply
    /\ calls = <<>>

(* The reply has been sent; the service waits for the next request *)
next_request ==
    /\ pc = "done"
    /\ pc' = "idle"
    /\ message' = <<>>
    /\ routing_decision' = Null
    /\ tasks' = <<>>
    /\ results' = <<>>
    /\ successful_tasks' = 0
    /\ failed_tasks' = 0
    /\ a2a_result' = Null
    /\ http' = NoReply
    /\ calls' = <<>>
    /\ UNCHANGED <<sessVars, faceVars, voiceVars, playVars, webVars, a2a_orchestrator, chat_model, airia_api_key,
                   conversation_history>>

----------------------------------------------------------------------------
(* face_control/face.py                                                      *)
(*                                                                           *)
(* Landmark coordinates and eye aspect ratios are fixed-point numbers in     *)
(* hundredths, times are in tenths of a second.  Cursor movement and its     *)
(* calibration decide no gesture, click or mode and are left out.            *)

GESTURE_MODE == "gesture"
MOUSE_MODE   == "mouse"

(* Program constants of UnifiedFaceController.__init__ and detect_wink *)
mode_toggle_cooldown         == 5       \* 0.5 s
gesture_cooldown_time        == 15      \* 1.5 s
head_range                   == 15      \* 0.15
head_reset_range             == 8       \* 0.08
wide_eyes_multiplier         == 125     \* 1.25
wide_eyes_calibration_needed == 30
click_cooldown               == 8       \* 0.8 s
head_turn_threshold          == 2       \* 0.02
wink_threshold               == 28      \* 0.28
ear_difference_threshold     == 12      \* 0.12

(* An attribute that is None, and one that holds a number *)
Unset   == <<>>
Some(x) == <<x>>

Abs(x) == IF x < 0 THEN -x ELSE x

(* time.time() when the controller is constructed: long after the epoch, so  *)
(* that no cooldown is running                                               *)
StartClock == gesture_cooldown_time + 1

(* The instants after start-up at which the clock is read *)
Elapsed ==
    {d \in 0..MaxElapsed :
        d % click_cooldown = 0 \/ d % gesture_cooldown_time = 0}

(* The pairs <<left_ear, right_ear>> of a wink or nearly a wink: one eye at  *)
(* or below the wink threshold, the other at or above the open-eye threshold *)
WinkingEars ==
    {e \in Ears \X Ears :
        \/ e[1] <= wink_threshold
                /\ e[2] >= wink_threshold + ear_difference_threshold
        \/ e[2] <= wink_threshold
                /\ e[1] >= wink_threshold + ear_difference_threshold}

(* A frame with a face: the landmarks the detectors read *)
Face(nose_x, head_rotation, left_ear, right_ear) ==
    [nose_x |-> nose_x, head_rotation |-> head_rotation,
     left_ear |-> left_ear, right_ear |-> right_ear]

(* The frames of a run: the head moves with the eyes at rest; the eyes open  *)
(* and narrow together; one eye winks at any head rotation; or a left wink   *)
(* comes with and without a turn of the head                                 *)
Scenarios == {"head", "eyes", "wink", "mixed"}

Faces(s) ==
    CASE s = "head" ->
            {Face(n, OkRotation, RestEar, RestEar) : n \in NoseXs}
      [] s = "eyes" ->
            {Face(CenterX, OkRotation, e, e) : e \in Ears}
      [] s = "wink" ->
            {Face(CenterX, h, e[1], e[2]) : h \in HeadRotations, e \in WinkingEars}
      [] OTHER ->
            {Face(CenterX, OkRotation, RestEar, RestEar),
             Face(CenterX, OkRotation, WinkEar, OpenEar),
             Face(TurnedX, OkRotation, WinkEar, OpenEar)}

Kinds == {"head", "wide_eyes", "mode_toggle", "left_click"}

(* What one pass of the loop detected and executed *)
Out(head, eyes, wink, action) ==
    [head |-> head, eyes |-> eyes, wink |-> wink, action |-> action]

NoOut == Out(None, None, None, None)

(* current_time - last < self.gesture_cooldown_time *)
GestureCooldownRunning(last) == clock - last < gesture_cooldown_time

(* A cooldown that is over as soon as it has lasted click_cooldown *)
ClickCooldownOverOrAt(last) == clock - last >= click_cooldown

(* current_time - last > self.click_cooldown *)
ClickCooldownOver(last) == clock - last > click_cooldown

(* A reset range as wide as the trigger range *)
InTriggerRange(movement) == Abs(movement) <= head_range

(* abs(movement) < self.head_reset_range *)
InResetRange(movement) == Abs(movement) < head_reset_range

(* detect_head_gesture: the return value and the attributes it leaves *)
HeadResult(result, center, active, direction, time) ==
    [result |-> result, gesture_center_x |-> center, gesture_active |-> active,
     last_gesture_direction |-> direction, last_gesture_time |-> time]

HeadUnchanged ==
    HeadResult(None, gesture_center_x, gesture_active, last_gesture_direction,
               last_gesture_time)

detect_head_gesture(face) ==
    IF current_mode # GESTURE_MODE THEN HeadUnchanged
    ELSE IF gesture_center_x = Unset
    THEN [HeadUnchanged EXCEPT !.gesture_center_x = Some(face.nose_x)]
    ELSE
        LET movement == face.nose_x - gesture_center_x[1]
            current_direction ==
                IF Abs(movement) > head_range
                THEN (IF movement > 0 THEN "right" ELSE "left")
                ELSE None
            centered == InResetRange(movement)
            active == IF centered THEN FALSE ELSE gesture_active
            direction == IF centered THEN None ELSE last_gesture_direction
            quiet == HeadResult(None, gesture_center_x, active, direction,
                                last_gesture_time)
        IN  IF GestureCooldownRunning(last_gesture_time) THEN quiet
            ELSE IF /\ current_direction # None
                    /\ current_direction = direction
                    /\ active
            THEN quiet
            ELSE IF current_direction # None
            THEN HeadResult("head_" \o current_direction, gesture_center_x,
                            TRUE, current_direction, clock)
            ELSE quiet

(* 0.9 * baseline + 0.1 * avg_ear, rounded to the grid *)
Smooth(baseline, avg_ear) == (9 * baseline + avg_ear + 5) \div 10

(* A comparison that lets the threshold itself through *)
WiderThanOrEqual(avg_ear, baseline) ==
    /\ avg_ear * 100 >= baseline * wide_eyes_multiplier
    /\ IF baseline > 0 THEN avg_ear * 100 >= 125 * baseline ELSE FALSE

(* avg_ear > threshold and eyes_ratio > 1.25, where eyes_ratio is            *)
(* avg_ear / baseline for a positive baseline and 0 otherwise               *)
WiderThan(avg_ear, baseline) ==
    /\ avg_ear * 100 > baseline * wide_eyes_multiplier
    /\ IF baseline > 0 THEN avg_ear * 100 > 125 * baseline ELSE FALSE

(* detect_wide_eyes_gesture: the return value and the attributes it leaves *)
EyesResult(result, baseline, frames, time) ==
    [result |-> result, baseline_ear |-> baseline,
     wide_eyes_calibration_frames |-> frames, last_wide_eyes_time |-> time]

EyesUnchanged ==
    EyesResult(None, baseline_ear, wide_eyes_calibration_frames,
               last_wide_eyes_time)

(* A calibration that is over one frame early *)
CalibratingShort ==
    wide_eyes_calibration_frames < wide_eyes_calibration_needed - 1

(* self.wide_eyes_calibration_frames < self.wide_eyes_calibration_needed *)
Calibrating == wide_eyes_calibration_frames < wide_eyes_calibration_needed

detect_wide_eyes_gesture(face) ==
    IF current_mode # GESTURE_MODE THEN EyesUnchanged
    ELSE IF GestureCooldownRunning(last_wide_eyes_time) THEN EyesUnchanged
    ELSE
        LET avg_ear == (face.left_ear + face.right_ear) \div 2
        IN  IF baseline_ear = Unset
            THEN EyesResult(None, Some(avg_ear),
                            wide_eyes_calibration_frames + 1, last_wide_eyes_time)
            ELSE IF Calibrating
            THEN EyesResult(None, Some(Smooth(baseline_ear[1], avg_ear)),
                            wide_eyes_calibration_frames + 1, last_wide_eyes_time)
            ELSE IF WiderThan(avg_ear, baseline_ear[1])
            THEN EyesResult("wide_eyes", baseline_ear,
                            wide_eyes_calibration_frames, clock)
            ELSE EyesUnchanged

(* The left eye is closed and the right eye is open *)
LeftWink(face) ==
    /\ face.left_ear < wink_threshold
    /\ face.right_ear > wink_threshold + ear_difference_threshold

(* A right wink that includes the thresholds themselves *)
RightWinkLoose(face) ==
    /\ face.right_ear <= wink_threshold
    /\ face.left_ear >= wink_threshold + ear_difference_threshold

(* The right eye is closed and the left eye is open *)
RightWink(face) ==
    /\ face.right_ear < wink_threshold
    /\ face.left_ear > wink_threshold + ear_difference_threshold

(* detect_wink: the return value and the attributes it leaves *)
WinkResult(result, left_click, right_click) ==
    [result |-> result, last_left_click |-> left_click,
     last_right_click |-> right_click]

detect_wink(face) ==
    IF face.head_rotation > head_turn_threshold
    THEN WinkResult(None, last_left_click, last_right_click)
    ELSE IF LeftWink(face) /\ ClickCooldownOver(last_right_click)
    THEN WinkResult("mode_toggle", last_left_click, clock)
    ELSE IF /\ current_mode = MOUSE_MODE
            /\ RightWink(face)
            /\ ClickCooldownOver(last_left_click)
    THEN WinkResult("left_click", clock, last_right_click)
    ELSE WinkResult(None, last_left_click, last_right_click)

(* toggle_mode *)
toggle_mode ==
    IF clock - last_mode_toggle > mode_toggle_cooldown
    THEN /\ current_mode' =
                IF current_mode = GESTURE_MODE THEN MOUSE_MODE ELSE GESTURE_MODE
         /\ last_mode_toggle' = clock
    ELSE UNCHANGED <<current_mode, last_mode_toggle>>

(* run, gesture mode: what is executed for the three detections *)
GestureAction(head_gesture, wide_eyes_gesture, wink) ==
    IF head_gesture # None THEN head_gesture
    ELSE IF wide_eyes_gesture # None THEN wide_eyes_gesture
    ELSE IF wink = "mode_toggle" THEN "toggle_mode"
    ELSE None

(* run, mouse mode: what is executed for the wink *)
MouseAction(wink) ==
    IF wink = "left_click" THEN "left_click"
    ELSE IF wink = "mode_toggle" THEN "toggle_mode"
    ELSE None

(* The kinds of gesture the detectors emitted *)
Emitted(o) ==
    {k \in Kinds :
        \/ k = "head" /\ o.head # None
        \/ k = "wide_eyes" /\ o.eyes # None
        \/ k \in {"mode_toggle", "left_click"} /\ o.wink = k}

(* The emissions of a pass are entered in last_emit and min_gap *)
Record(o) ==
    /\ last_emit' = [k \in Kinds |->
            IF k \in Emitted(o) THEN Some(clock) ELSE last_emit[k]]
    /\ min_gap' = [k \in Kinds |->
            IF k \in Emitted(o) /\ last_emit[k] # Unset
            THEN IF min_gap[k] = Unset \/ clock - last_emit[k][1] < min_gap[k][1]
                 THEN Some(clock - last_emit[k][1])
                 ELSE min_gap[k]
            ELSE min_gap[k]]

(* run: one pass of the loop over a frame that shows a face *)
process_frame(face) ==
    LET head == detect_head_gesture(face)
        eyes == detect_wide_eyes_gesture(face)
        wink == detect_wink(face)
        o    == IF current_mode = GESTURE_MODE
                THEN Out(head.result, eyes.result, wink.result,
                         GestureAction(head.result, eyes.result, wink.result))
                ELSE Out(None, None, wink.result, MouseAction(wink.result))
    IN  /\ gesture_center_x' = head.gesture_center_x
        /\ gesture_active' = head.gesture_active
        /\ last_gesture_direction' = head.last_gesture_direction
        /\ last_gesture_time' = head.last_gesture_time
        /\ baseline_ear' = eyes.baseline_ear
        /\ wide_eyes_calibration_frames' = eyes.wide_eyes_calibration_frames
        /\ last_wide_eyes_time' = eyes.last_wide_eyes_time
        /\ last_left_click' = wink.last_left_click
        /\ last_right_click' = wink.last_right_click
        /\ IF o.action = "toggle_mode" THEN toggle_mode
           ELSE UNCHANGED <<current_mode, last_mode_toggle>>
        /\ out' = o
        /\ Record(o)
        /\ head_blocked' =
                IF o.head # None THEN head.last_gesture_direction
                ELSE IF /\ current_mode = GESTURE_MODE
                        /\ Abs(face.nose_x - head.gesture_center_x[1])
                                < head_reset_range
                THEN None
                ELSE head_blocked
        /\ eye_frames' =
                IF eyes.baseline_ear # baseline_ear
                   \/ eyes.wide_eyes_calibration_frames
                            # wide_eyes_calibration_frames
                THEN eye_frames + 1 ELSE eye_frames
        /\ UNCHANGED <<scenario, clock, sessVars, flowVars, voiceVars, playVars, webVars>>

Keys == {"r", "esc"}

(* reset_calibration *)
reset_calibration ==
    IF current_mode = GESTURE_MODE
    THEN /\ gesture_center_x' = Unset
         /\ baseline_ear' = Unset
         /\ wide_eyes_calibration_frames' = 0
         /\ gesture_active' = FALSE
         /\ last_gesture_direction' = None
         /\ eye_frames' = 0
    ELSE UNCHANGED <<gesture_center_x, baseline_ear,
                     wide_eyes_calibration_frames, gesture_active,
                     last_gesture_direction, eye_frames>>

(* An ESC key that toggles *)
EscapeToggles ==
    IF current_mode = MOUSE_MODE THEN GESTURE_MODE ELSE MOUSE_MODE

(* The ESC key: back to gesture mode *)
Escape ==
    IF current_mode = MOUSE_MODE THEN GESTURE_MODE ELSE current_mode

(* run: the key handling of a pass of the loop *)
handle_key(key) ==
    /\ IF key = "r"
       THEN reset_calibration /\ UNCHANGED current_mode
       ELSE /\ current_mode' = Escape
            /\ UNCHANGED <<gesture_center_x, baseline_ear,
                           wide_eyes_calibration_frames, gesture_active,
                           last_gesture_direction, eye_frames>>
    /\ out' = NoOut
    /\ UNCHANGED <<scenario, clock, last_mode_toggle, last_gesture_time,
                   last_wide_eyes_time, last_left_click, last_right_click,
                   last_emit, min_gap, head_blocked, sessVars, flowVars, voiceVars, playVars, webVars>>

(* Time passes between two passes of the loop *)
FaceTick ==
    /\ \E d \in Elapsed : StartClock + d > clock /\ clock' = StartClock + d
    /\ out' = NoOut
    /\ UNCHANGED <<scenario, current_mode, last_mode_toggle, last_gesture_time,
                   last_wide_eyes_time, gesture_center_x, gesture_active,
                   last_gesture_direction, baseline_ear,
                   wide_eyes_calibration_frames, last_left_click,
                   last_right_click, last_emit, min_gap, head_blocked,
                   eye_frames, sessVars, flowVars, voiceVars, playVars, webVars>>

----------------------------------------------------------------------------
(* voice_recognition.py: the recogniser thread's transcription handlers *)

(* A transcription is a sequence of atoms: an atom is a maximal run of word  *)
(* characters (a word, never next to another word) or one separator          *)
(* character.  "\b" of the patterns then holds exactly at the two ends of a  *)
(* word atom, and a pattern word matches a word atom only when they are      *)
(* equal.                                                                    *)
Space == " "
Separators == {",", "!", ".", "?", Space}

(* Bounds of the recogniser model *)
MaxLapse == 11

(* The transcriptions the speech service delivers *)
Texts ==
    { <<"play">>,
      <<Space, "play", Space>>,
      <<Space>>,
      <<"hey", Space, "flow">>,
      <<"Hey", ",", Space, "Flow", ".">>,
      <<"hey", Space, "flow", Space, "play">>,
      <<"Hey", ",", Space, "Flow", ",", Space, "Play", Space>>,
      <<"hey", "!", Space, Space, "flow", "!", "play", "?">>,
      <<"hey", Space, "flow", "?", Space, "play">>,
      <<"hey", Space, "flo", Space, "play">>,
      <<"heyflow", Space, "play">>,
      <<"he", Space, "flowed", ".", Space, "play">>,
      <<"they", Space, "flow", Space, "play">>,
      <<"hey", Space, "flowing", Space, "play">>,
      <<"hey", ".", Space, "flow", Space, "play">>,
      <<"hey", Space, "flo", Space, "play", Space, "hey", Space, "flow">>,
      <<"hey", Space, "flow", Space, "orange", Space, "play">>,
      <<"orange", Space, "hey", Space, "flow", Space, "play">>,
      <<"orange", Space, "hey", Space, "flow">>,
      <<"orange", Space, "play">>,
      <<"Orange", ",", Space, "Play", ".">>,
      <<"oranges", Space, "play">>,
      <<"orange">>,
      <<"Orange", "!">>,
      <<"orange", ".">>,
      <<"orange", Space>>,
      <<"play", Space, "orange">> }

(* The partial transcriptions delivered before a final one *)
Partials ==
    { <<"hey", Space, "flow">>,
      <<"hey", Space, "flow", Space, "play">>,
      <<"orange", Space, "play">> }

StartWall == 1

(* A transcription the service can deliver: not empty, words kept apart *)
WellFormed(text) ==
    /\ text # <<>>
    /\ \A i \in 1..(Len(text) - 1) :
            text[i] \in Separators \/ text[i + 1] \in Separators

(* str.lower() on one atom and on a text *)
LowerAtom(a) ==
    CASE a = "Hey" -> "hey"
      [] a = "Flow" -> "flow"
      [] a = "Orange" -> "orange"
      [] a = "Play" -> "play"
      [] OTHER -> a

lower(text) == [i \in 1..Len(text) |-> LowerAtom(text[i])]

(* A pattern: \b, its words with [,!]?\s+ between them, and then \b, or *)
(* [,!]?\s, or [,!]?$                                                    *)
Words(words) == [words |-> words, tail |-> "\\b"]

ThenSpace(word) == [words |-> <<word>>, tail |-> "[,!]?\\s"]

AtEnd(word) == [words |-> <<word>>, tail |-> "[,!]?$"]

flow_patterns ==
    << Words(<<"hey", "flow">>), Words(<<"hey", "flo">>),
       Words(<<"hay", "flow">>), Words(<<"hay", "flo">>),
       Words(<<"heyflow">>), Words(<<"hayflo">>),
       Words(<<"hey", "fluer">>), Words(<<"hey", "fleur">>),
       Words(<<"hey", "floor">>), Words(<<"he", "flowed">>),
       Words(<<"he", "flow">>), Words(<<"hey", "flew">>),
       Words(<<"hey", "flows">>), Words(<<"hey", "flower">>),
       Words(<<"hey", "fluid">>) >>

orange_patterns ==
    << ThenSpace("orange"), ThenSpace("oranges"), ThenSpace("orenge"),
       AtEnd("orange"), ThenSpace("oranj"), ThenSpace("orang"),
       ThenSpace("aurange"), ThenSpace("arange"), ThenSpace("urrange"),
       ThenSpace("orrige"), ThenSpace("oringe") >>

(* Where [,!]? leaves the matcher when it is tried at position j *)
AfterOptionalMark(text, j) ==
    IF j <= Len(text) /\ text[j] \in {",", "!"} THEN j + 1 ELSE j

(* Where \s* leaves the matcher when it is tried at position j *)
AfterSpaces(text, j) ==
    CHOOSE k \in j..(Len(text) + 1) :
        /\ \A m \in j..(k - 1) : text[m] = Space
        /\ k = Len(text) + 1 \/ text[k] # Space

(* The position of the last word of the pattern tried at position i, 0 *)
(* when the words do not match                                         *)
WordsEnd(p, text, i) ==
    IF text[i] # p.words[1] THEN 0
    ELSE IF Len(p.words) = 1 THEN i
    ELSE LET j == AfterOptionalMark(text, i + 1)
             k == AfterSpaces(text, j)
         IN  IF k > j /\ k <= Len(text) /\ text[k] = p.words[2]
             THEN k ELSE 0

(* match.end() of the pattern tried at position i, 0 when it fails *)
MatchEnd(p, text, i) ==
    LET e == WordsEnd(p, text, i)
        j == AfterOptionalMark(text, e + 1)
    IN  IF e = 0 THEN 0
        ELSE IF p.tail = "\\b" THEN e
        ELSE IF p.tail = "[,!]?$"
        THEN IF j = Len(text) + 1 THEN j - 1 ELSE 0
        ELSE IF j <= Len(text) /\ text[j] = Space THEN j ELSE 0

(* re.search: the leftmost position where the pattern matches *)
search(p, text) ==
    LET starts == {i \in 1..Len(text) : MatchEnd(p, text, i) # 0}
    IN  IF starts = {} THEN 0
        ELSE MatchEnd(p, text, CHOOSE i \in starts : \A j \in starts : i <= j)

(* for pattern in patterns: the match of the first pattern that matches *)
FirstMatch(patterns, text) ==
    LET hits == {n \in 1..Len(patterns) : search(patterns[n], text) # 0}
    IN  IF hits = {} THEN 0
        ELSE search(patterns[CHOOSE n \in hits : \A m \in hits : n <= m], text)

RECURSIVE DropLeading(_, _)
DropLeading(text, atoms) ==
    IF text = <<>> \/ Head(text) \notin atoms THEN text
    ELSE DropLeading(Tail(text), atoms)

AfterMatchUncleaned(text, end) == strip(SubSeq(text, end + 1, Len(text)))

(* text[end:].strip(), then re.sub(r'^[,!.\s]+', '', ...).strip() *)
AfterMatch(text, end) ==
    strip(DropLeading(strip(SubSeq(text, end + 1, Len(text))),
                      {",", "!", ".", Space}))

Signal(name, arg) == [signal |-> name, arg |-> arg]

ListeningForCommand == <<"Listening for command...">>
OrangeMode == <<"Orange dictation mode - speak your text...">>
ListeningForWakeWords == <<"Listening for wake words...">>

wait_timeout == 10

Lapses == {d \in 1..MaxLapse : d >= wait_timeout}

(* if self.waiting_for_...: the transcription answers a wait *)
AnswersUnasked(waiting, text) == strip(text) # <<>>

Answers(waiting, text) == waiting /\ strip(text) # <<>>

(* The timeout test at the end of check_for_wake_words *)
TimedOut ==
    /\ waiting_for_command \/ waiting_for_orange
    /\ wake_word_detected_time # Unset
    /\ wall - wake_word_detected_time[1] > wait_timeout

(* check_for_wake_words(text, is_final=True) *)
check_for_wake_words(text) ==
    LET flow == FirstMatch(flow_patterns, lower(text))
        orange == FirstMatch(orange_patterns, lower(text))
        command == AfterMatch(text, flow)
        dictation == AfterMatch(text, orange)
    IN  IF flow # 0
        THEN IF command # <<>>
             THEN /\ signals' = <<Signal("wake_word_detected", command)>>
                  /\ UNCHANGED <<waiting_for_command, waiting_for_orange,
                                 waiting_for_dictation,
                                 wake_word_detected_time>>
             ELSE /\ waiting_for_command' = TRUE
                  /\ wake_word_detected_time' = Some(wall)
                  /\ signals' = <<Signal("status_changed", ListeningForCommand)>>
                  /\ UNCHANGED <<waiting_for_orange, waiting_for_dictation>>
        ELSE IF orange # 0
        THEN IF dictation # <<>>
             THEN /\ signals' = <<Signal("dictation_detected", dictation)>>
                  /\ UNCHANGED <<waiting_for_command, waiting_for_orange,
                                 waiting_for_dictation,
                                 wake_word_detected_time>>
             ELSE /\ waiting_for_dictation' = TRUE
                  /\ wake_word_detected_time' = Some(wall)
                  /\ signals' = <<Signal("status_changed", OrangeMode)>>
                  /\ UNCHANGED <<waiting_for_command, waiting_for_orange>>
        ELSE IF Answers(waiting_for_command, text)
        THEN /\ signals' = <<Signal("wake_word_detected", strip(text)),
                             Signal("status_changed", ListeningForWakeWords)>>
             /\ waiting_for_command' = FALSE
             /\ UNCHANGED <<waiting_for_orange, waiting_for_dictation,
                            wake_word_detected_time>>
        ELSE IF Answers(waiting_for_orange, text)
        THEN /\ signals' = <<Signal("dictation_detected", strip(text)),
                             Signal("status_changed", ListeningForWakeWords)>>
             /\ waiting_for_orange' = FALSE
             /\ UNCHANGED <<waiting_for_command, waiting_for_dictation,
                            wake_word_detected_time>>
        ELSE IF TimedOut
        THEN /\ waiting_for_command' = FALSE
             /\ waiting_for_orange' = FALSE
             /\ signals' = <<Signal("status_changed", ListeningForWakeWords)>>
             /\ UNCHANGED <<waiting_for_dictation, wake_word_detected_time>>
        ELSE /\ signals' = <<>>
             /\ UNCHANGED <<waiting_for_command, waiting_for_orange,
                            waiting_for_dictation, wake_word_detected_time>>

(* if self.is_processing_backend: return *)
IgnoredNever == FALSE

Ignored == is_processing_backend

Heard(kind, text) ==
    [kind |-> kind, text |-> text, processing |-> is_processing_backend]

NothingHeard == [kind |-> "none", text |-> <<>>, processing |-> FALSE]

(* on_partial_transcription: check_for_wake_words returns at once for a *)
(* transcription that is not final                                      *)
on_partial_transcription(text) ==
    /\ heard' = Heard("partial", text)
    /\ signals' = <<>>
    /\ current_text_buffer' =
            IF Ignored THEN current_text_buffer ELSE lower(text)
    /\ UNCHANGED <<is_processing_backend, waiting_for_command,
                   waiting_for_orange, waiting_for_dictation,
                   wake_word_detected_time, wall>>
    /\ UNCHANGED <<sessVars, flowVars, faceVars, playVars, webVars>>

on_final_transcription(text) ==
    /\ heard' = Heard("final", text)
    /\ IF Ignored
       THEN /\ signals' = <<>>
            /\ UNCHANGED <<current_text_buffer, waiting_for_command,
                           waiting_for_orange, waiting_for_dictation,
                           wake_word_detected_time>>
       ELSE /\ check_for_wake_words(text)
            /\ current_text_buffer' = <<>>
    /\ UNCHANGED <<is_processing_backend, wall>>
    /\ UNCHANGED <<sessVars, flowVars, faceVars, playVars, webVars>>

set_backend_processing(processing) ==
    /\ is_processing_backend' = processing
    /\ heard' = NothingHeard
    /\ signals' = <<>>
    /\ UNCHANGED <<current_text_buffer, waiting_for_command,
                   waiting_for_orange, waiting_for_dictation,
                   wake_word_detected_time, wall>>
    /\ UNCHANGED <<sessVars, flowVars, faceVars, playVars, webVars>>

(* Time passes between two transcriptions *)
VoiceTick ==
    /\ \E d \in Lapses : wall + d <= StartWall + MaxLapse /\ wall' = wall + d
    /\ heard' = NothingHeard
    /\ signals' = <<>>
    /\ UNCHANGED <<is_processing_backend, current_text_buffer,
                   waiting_for_command, waiting_for_orange,
                   waiting_for_dictation, wake_word_detected_time>>
    /\ UNCHANGED <<sessVars, flowVars, faceVars, playVars, webVars>>

----------------------------------------------------------------------------
(* main_window.py: a command, its backend response and the playback of the *)
(* response audio.  One play_audio thread is followed at a time.           *)

(* The wake_word_detected signal the recogniser emitted last reaches       *)
(* handle_wake_word_command: execute_command_with_backend                  *)
execute_command_with_backend ==
    /\ gui_thread = "idle"
    /\ \E i \in 1..Len(signals) :
            /\ signals[i].signal = "wake_word_detected"
            /\ strip(signals[i].arg) # <<>>
    /\ is_processing_backend' = TRUE
    /\ gui_thread' = "executing"
    /\ heard' = NothingHeard
    /\ signals' = <<>>
    /\ UNCHANGED <<current_text_buffer, waiting_for_command,
                   waiting_for_orange, waiting_for_dictation,
                   wake_word_detected_time, wall, play_audio, music_busy>>
    /\ UNCHANGED <<sessVars, flowVars, faceVars, webVars>>

(* handle_backend_response up to its finally: with an audio_url and audio  *)
(* available, _play_audio_from_url starts the play_audio thread            *)
handle_backend_response(audio_url) ==
    /\ gui_thread = "executing"
    /\ audio_url => play_audio = "none"
    /\ gui_thread' = "responding"
    /\ play_audio' = IF audio_url THEN "download" ELSE play_audio
    /\ heard' = NothingHeard
    /\ signals' = <<>>
    /\ UNCHANGED <<is_processing_backend, current_text_buffer,
                   waiting_for_command, waiting_for_orange,
                   waiting_for_dictation, wake_word_detected_time, wall,
                   music_busy>>
    /\ UNCHANGED <<sessVars, flowVars, faceVars, webVars>>

(* handle_backend_response: finally, set_backend_processing(False) *)
handle_backend_response_finally ==
    /\ gui_thread = "responding"
    /\ is_processing_backend' = FALSE
    /\ gui_thread' = "idle"
    /\ heard' = NothingHeard
    /\ signals' = <<>>
    /\ UNCHANGED <<current_text_buffer, waiting_for_command,
                   waiting_for_orange, waiting_for_dictation,
                   wake_word_detected_time, wall, play_audio, music_busy>>
    /\ UNCHANGED <<sessVars, flowVars, faceVars, webVars>>

(* play_audio: requests.get, then pygame.mixer.music.load and play *)
play_audio_play(downloaded) ==
    /\ play_audio = "download"
    /\ IF downloaded
       THEN /\ music_busy' = TRUE
            /\ play_audio' = "started"
            /\ UNCHANGED is_processing_backend
       ELSE /\ play_audio' = "none"
            /\ UNCHANGED <<music_busy, is_processing_backend>>
    /\ heard' = NothingHeard
    /\ signals' = <<>>
    /\ UNCHANGED <<current_text_buffer, waiting_for_command,
                   waiting_for_orange, waiting_for_dictation,
                   wake_word_detected_time, wall, gui_thread>>
    /\ UNCHANGED <<sessVars, flowVars, faceVars, webVars>>

(* play_audio: set_backend_processing(True) once playback has started *)
play_audio_disable ==
    /\ play_audio = "started"
    /\ is_processing_backend' = TRUE
    /\ play_audio' = "wait"
    /\ heard' = NothingHeard
    /\ signals' = <<>>
    /\ UNCHANGED <<current_text_buffer, waiting_for_command,
                   waiting_for_orange, waiting_for_dictation,
                   wake_word_detected_time, wall, gui_thread, music_busy>>
    /\ UNCHANGED <<sessVars, flowVars, faceVars, webVars>>

(* The audio comes to its end *)
music_ends ==
    /\ music_busy
    /\ music_busy' = FALSE
    /\ heard' = NothingHeard
    /\ signals' = <<>>
    /\ UNCHANGED <<is_processing_backend, current_text_buffer,
                   waiting_for_command, waiting_for_orange,
                   waiting_for_dictation, wake_word_detected_time, wall,
                   gui_thread, play_audio>>
    /\ UNCHANGED <<sessVars, flowVars, faceVars, webVars>>

(* play_audio: the wait loop ends, set_backend_processing(False) *)
play_audio_enable ==
    /\ play_audio = "wait"
    /\ ~music_busy
    /\ is_processing_backend' = FALSE
    /\ play_audio' = "none"
    /\ heard' = NothingHeard
    /\ signals' = <<>>
    /\ UNCHANGED <<current_text_buffer, waiting_for_command,
                   waiting_for_orange, waiting_for_dictation,
                   wake_word_detected_time, wall, gui_thread, music_busy>>
    /\ UNCHANGED <<sessVars, flowVars, faceVars, webVars>>

(* A slot of the recogniser runs between two slots of the GUI thread *)
transcription_result(text) ==
    /\ gui_thread # "responding"
    /\ on_final_transcription(text)

----------------------------------------------------------------------------
(* web_use_agent.py: WebUseAgent.execute_web_task.  The agent is           *)
(* constructed: __init__ raises unless chat_model is set.                  *)

(* Bounds of the web agent model *)
MaxWebTasks == 3

(* What an exception says: str(asyncio.TimeoutError()) is empty *)
WebErrors == {"", "401", "boom"}

(* Text a model returns: empty, whitespace only, plain *)
Contents == {<<>>, <<" ">>, <<"x">>}

(* str() of an output that is not text *)
Repr == <<"str(output)">>

(* result of agent_executor.ainvoke: its "output" is a list whose first    *)
(* item has "text", a string, or something else                            *)
AgentOutputs ==
    [format : {"list_text", "str"}, content : Contents]
        \cup {[format |-> "other", content |-> <<>>]}

result_content_of(output) ==
    IF output.format = "other" THEN Repr ELSE output.content

NoResponse == [none |-> TRUE]

Unable ==
    <<"I was unable to retrieve the requested information. Please try again later.">>

FallbackTimedOut ==
    <<"I'm sorry, but I'm currently experiencing technical difficulties accessing current information. Please try again later or check Apple's official website directly for the latest iPhone pricing.">>

FallbackBroke ==
    <<"I apologize, but I'm unable to retrieve current iPhone pricing information due to technical issues. Please visit Apple's official website or check with authorized retailers for the most up-to-date pricing.">>

(* The return at the end of the try *)
SuccessResponse(result_content) ==
    [success |-> TRUE,
     result |-> IF strip(result_content) # <<>> THEN result_content
                ELSE Unable,
     error_message |-> Unset]

(* except Exception as e: error_msg *)
FailureResponseBare(e) ==
    [success |-> FALSE, result |-> <<>>, error_message |-> Some(e)]

FailureResponse(e) ==
    [success |-> FALSE, result |-> <<>>,
     error_message |-> Some("Web task failed: " \o e)]

BothFailed(e, fallback_error) ==
    "Both agent and fallback failed. Agent error: " \o e
        \o ", Fallback error: " \o fallback_error

WebFrame == UNCHANGED <<sessVars, flowVars, faceVars, voiceVars, playVars>>

(* execute_web_task up to the choice of the mode *)
web_task_begin ==
    /\ web_pc = "idle"
    /\ web_tasks < MaxWebTasks
    /\ web_tasks' = web_tasks + 1
    /\ web_pc' = IF ~mcp_initialized THEN "mcp"
                 ELSE IF mcp_tools THEN "create" ELSE "plain"
    /\ web_returned' = NoResponse
    /\ UNCHANGED <<mcp_initialized, mcp_tools, exc, agent_error,
                   fallback_reason, fallback_failed, agent_runs,
                   model_calls>>
    /\ WebFrame

(* _initialize_mcp: every path sets _mcp_initialized and none raises *)
initialize_mcp(tools) ==
    /\ web_pc = "mcp"
    /\ mcp_initialized' = TRUE
    /\ mcp_tools' = tools
    /\ web_pc' = IF tools THEN "create" ELSE "plain"
    /\ UNCHANGED <<exc, agent_error, fallback_reason, fallback_failed,
                   agent_runs, model_calls, web_returned, web_tasks>>
    /\ WebFrame

(* The imports, create_tool_calling_agent and AgentExecutor *)
create_agent(error) ==
    /\ web_pc = "create"
    /\ IF error = Unset
       THEN web_pc' = "run" /\ UNCHANGED exc
       ELSE web_pc' = "except" /\ exc' = error
    /\ UNCHANGED <<mcp_initialized, mcp_tools, agent_error, fallback_reason,
                   fallback_failed, agent_runs, model_calls, web_returned,
                   web_tasks>>
    /\ WebFrame

(* asyncio.wait_for(agent_executor.ainvoke(...), timeout=120) *)
run_agent(outcome) ==
    /\ web_pc = "run"
    /\ agent_runs' = agent_runs + 1
    /\ CASE outcome.kind = "output" ->
                /\ web_pc' = "done"
                /\ web_returned' =
                        SuccessResponse(result_content_of(outcome.output))
                /\ UNCHANGED <<agent_error, fallback_reason>>
         [] outcome.kind = "timeout" ->
                /\ web_pc' = "fallback"
                /\ fallback_reason' = "TimeoutError"
                /\ UNCHANGED <<agent_error, web_returned>>
         [] outcome.kind = "error" ->
                /\ web_pc' = "fallback"
                /\ fallback_reason' = "Exception"
                /\ agent_error' = Some(outcome.error)
                /\ UNCHANGED web_returned
    /\ UNCHANGED <<mcp_initialized, mcp_tools, exc, fallback_failed,
                   model_calls, web_tasks>>
    /\ WebFrame

(* The plain model call after the agent run timed out (no try around it) *)
(* or failed (try, timeout=30)                                           *)
fallback(outcome) ==
    /\ web_pc = "fallback"
    /\ model_calls' = model_calls + 1
    /\ IF outcome.kind = "content"
       THEN /\ web_pc' = "done"
            /\ web_returned' = SuccessResponse(outcome.content)
            /\ UNCHANGED <<exc, fallback_failed>>
       ELSE /\ web_pc' = "except"
            /\ fallback_failed' = TRUE
            /\ exc' = IF fallback_reason = "Exception"
                      THEN Some(BothFailed(agent_error[1], outcome.error))
                      ELSE Some(outcome.error)
            /\ UNCHANGED web_returned
    /\ UNCHANGED <<mcp_initialized, mcp_tools, agent_error, fallback_reason,
                   agent_runs, web_tasks>>
    /\ WebFrame

(* The mode without MCP tools: one plain model call, timeout=60 *)
plain(outcome) ==
    /\ web_pc = "plain"
    /\ model_calls' = model_calls + 1
    /\ web_pc' = "done"
    /\ web_returned' =
            SuccessResponse(CASE outcome.kind = "content" -> outcome.content
                              [] outcome.kind = "timeout" -> FallbackTimedOut
                              [] outcome.kind = "error" -> FallbackBroke)
    /\ UNCHANGED <<mcp_initialized, mcp_tools, exc, agent_error,
                   fallback_reason, fallback_failed, agent_runs, web_tasks>>
    /\ WebFrame

(* except Exception as e: of execute_web_task *)
except_Exception ==
    /\ web_pc = "except"
    /\ web_pc' = "done"
    /\ web_returned' = FailureResponse(exc[1])
    /\ exc' = Unset
    /\ UNCHANGED <<mcp_initialized, mcp_tools, agent_error, fallback_reason,
                   fallback_failed, agent_runs, model_calls, web_tasks>>
    /\ WebFrame

(* The caller has the response; the agent waits for the next request *)
next_web_task ==
    /\ web_pc = "done"
    /\ web_pc' = "idle"
    /\ agent_error' = Unset
    /\ fallback_reason' = "None"
    /\ fallback_failed' = FALSE
    /\ agent_runs' = 0
    /\ model_calls' = 0
    /\ UNCHANGED <<mcp_initialized, mcp_tools, exc, web_returned, web_tasks>>
    /\ WebFrame

(* What a call of the model or of the agent can come to *)
ModelOutcomes ==
    [kind : {"content"}, content : Contents]
        \cup [kind : {"error"}, error : WebErrors]

PlainOutcomes == ModelOutcomes \cup {[kind |-> "timeout"]}

AgentOutcomes ==
    [kind : {"output"}, output : AgentOutputs]
        \cup {[kind |-> "timeout"]}
        \cup [kind : {"error"}, error : WebErrors]

----------------------------------------------------------------------------
(* Specifications *)

SessionStart ==
    /\ table = << >>
    /\ now = StartTime

(* After lifespan start-up with every component initialised *)
FlowStart ==
    /\ HandlerIdle
    /\ conversation_history = <<>>

(* After UnifiedFaceController.__init__ *)
FaceStart ==
    /\ clock = StartClock
    /\ current_mode = GESTURE_MODE
    /\ last_mode_toggle = 0
    /\ last_gesture_time = 0
    /\ last_wide_eyes_time = 0
    /\ gesture_center_x = Unset
    /\ gesture_active = FALSE
    /\ last_gesture_direction = None
    /\ baseline_ear = Unset
    /\ wide_eyes_calibration_frames = 0
    /\ last_left_click = 0
    /\ last_right_click = 0
    /\ out = NoOut
    /\ last_emit = [k \in Kinds |-> Unset]
    /\ min_gap = [k \in Kinds |-> Unset]
    /\ head_blocked = None
    /\ eye_frames = 0

(* After SpeechRecognitionThread.__init__ *)
VoiceStart ==
    /\ is_processing_backend = FALSE
    /\ current_text_buffer = <<>>
    /\ waiting_for_command = FALSE
    /\ waiting_for_orange = FALSE
    /\ waiting_for_dictation = FALSE
    /\ wake_word_detected_time = Unset
    /\ wall = StartWall
    /\ signals = <<>>
    /\ heard = NothingHeard

(* After MainWindow.__init__ *)
PlayStart ==
    /\ gui_thread = "idle"
    /\ play_audio = "none"
    /\ music_busy = FALSE

(* After WebUseAgent.__init__ *)
WebStart ==
    /\ mcp_initialized = FALSE
    /\ mcp_tools = FALSE
    /\ web_pc = "idle"
    /\ exc = Unset
    /\ agent_error = Unset
    /\ fallback_reason = "None"
    /\ fallback_failed = FALSE
    /\ agent_runs = 0
    /\ model_calls = 0
    /\ web_returned = NoResponse
    /\ web_tasks = 0

SessionInit ==
    /\ SessionStart
    /\ FlowStart
    /\ FaceStart
    /\ VoiceStart
    /\ PlayStart
    /\ WebStart
    /\ scenario = "head"
    /\ a2a_orchestrator = TRUE
    /\ chat_model = TRUE
    /\ airia_api_key = TRUE

SessionNext ==
    \/ \E sid \in SessionIds : create_session(sid)
    \/ \E sid \in SessionIds : update_session(sid)
    \/ \E sid \in SessionIds, c \in Commands, u \in UrlArgs :
            add_command_to_session(sid, c, u)
    \/ \E sid \in SessionIds, h \in ImportHistories, u \in UrlArgs :
            import_session_state(sid, StartTime, h, u)
    \/ \E n \in 0..MaxAgeHours : cleanup_old_sessions(n)
    \/ Tick

SessionSpec == SessionInit /\ [][SessionNext]_vars

(* lifespan: initialize_chat_model and initialize_a2a_flow may each fail *)
FlowInit ==
    /\ SessionStart
    /\ FlowStart
    /\ FaceStart
    /\ VoiceStart
    /\ PlayStart
    /\ WebStart
    /\ scenario = "head"
    /\ a2a_orchestrator \in BOOLEAN
    /\ chat_model \in BOOLEAN
    /\ airia_api_key \in BOOLEAN

FlowNext ==
    \/ \E m \in Messages : send_message(m)
    \/ \E reply \in RouterReplies : route(reply)
    \/ \E o \in AssistantOutcomes \cup WebOutcomes, e \in ErrorTexts :
            execute_task(o, e)
    \/ \E reply \in SynthesisReplies : synthesize(reply)
    \/ \E reply \in ChatReplies : chat(reply)
    \/ \E o \in TtsOutcomes : tts(o)
    \/ next_request

FlowSpec == FlowInit /\ [][FlowNext]_vars

FaceInit ==
    /\ SessionStart
    /\ FlowStart
    /\ FaceStart
    /\ VoiceStart
    /\ PlayStart
    /\ WebStart
    /\ scenario \in Scenarios
    /\ a2a_orchestrator = TRUE
    /\ chat_model = TRUE
    /\ airia_api_key = TRUE

FaceNext ==
    \/ \E face \in Faces(scenario) : process_frame(face)
    \/ \E key \in Keys : handle_key(key)
    \/ FaceTick

FaceSpec == FaceInit /\ [][FaceNext]_vars

VoiceInit ==
    /\ SessionStart
    /\ FlowStart
    /\ FaceStart
    /\ VoiceStart
    /\ PlayStart
    /\ WebStart
    /\ scenario = "head"
    /\ a2a_orchestrator = TRUE
    /\ chat_model = TRUE
    /\ airia_api_key = TRUE

VoiceNext ==
    \/ \E text \in Partials : on_partial_transcription(text)
    \/ \E text \in Texts : on_final_transcription(text)
    \/ \E processing \in BOOLEAN : set_backend_processing(processing)
    \/ VoiceTick

VoiceSpec == VoiceInit /\ [][VoiceNext]_vars

PlayInit == VoiceInit

PlayNext ==
    \/ \E text \in Texts : transcription_result(text)
    \/ execute_command_with_backend
    \/ \E audio_url \in BOOLEAN : handle_backend_response(audio_url)
    \/ handle_backend_response_finally
    \/ \E downloaded \in BOOLEAN : play_audio_play(downloaded)
    \/ play_audio_disable
    \/ music_ends
    \/ play_audio_enable

PlaySpec == PlayInit /\ [][PlayNext]_vars

WebInit == VoiceInit

WebNext ==
    \/ web_task_begin
    \/ \E tools \in BOOLEAN : initialize_mcp(tools)
    \/ \E error \in {Unset} \cup {Some(e) : e \in WebErrors} :
            create_agent(error)
    \/ \E outcome \in AgentOutcomes : run_agent(outcome)
    \/ \E outcome \in ModelOutcomes : fallback(outcome)
    \/ \E outcome \in PlainOutcomes : plain(outcome)
    \/ except_Exception
    \/ next_web_task

WebSpec == WebInit /\ [][WebNext]_vars

----------------------------------------------------------------------------
(* Properties of the session store *)

(* The cutoff of a cleanup started in the current state *)
Cutoff(max_age_hours) == MinusHours(now, max_age_hours)

(* A cleanup has expired one session and kept another one *)
SomeExpiredSomeKept ==
    \E a \in DOMAIN table, b \in DOMAIN table :
        /\ ~ table[a].is_active
        /\ table[b].is_active

(* What a step of cleanup_old_sessions(n) does to what the readers return *)
ExpiryPost(n) ==
    \A sid \in DOMAIN table :
        IF Before(table[sid].last_accessed, Cutoff(n))
        THEN /\ get_session(table', sid) = NoSession
             /\ \A s \in list_active_sessions(table') : s.session_id # sid
        ELSE /\ get_session(table', sid) = get_session(table, sid)
             /\ get_session(table, sid) # NoSession
                    => get_session(table, sid) \in list_active_sessions(table')

(* What every step of cleanup_old_sessions keeps: the clock, and the time   *)
(* of the last access of every record that is left                         *)
KeepsTimes ==
    /\ now' = now
    /\ DOMAIN table' \subseteq DOMAIN table
    /\ \A sid \in DOMAIN table' :
            table'[sid].last_accessed = table[sid].last_accessed

(* C1: after cleanup_old_sessions(max_age_hours), every session whose       *)
(* last_accessed is earlier than now - max_age_hours is expired: get_session *)
(* returns None for it and list_active_sessions omits it; every session      *)
(* accessed at or after the cutoff is still returned with all of its fields  *)
(* unchanged.                                                                *)
C1_SessionExpiry ==
    [][KeepsTimes =>
        \A n \in 0..MaxAgeHours : cleanup_old_sessions(n) => ExpiryPost(n)]_vars

(* C1 witness: an expired session next to a session that is still active, at *)
(* a time when the clock has moved on since start-up.                        *)
C1_Witness == SomeExpiredSomeKept /\ now # StartTime

(* C2 as stated: after cleanup_old_sessions, no record of a session whose    *)
(* last_accessed is older than the cutoff remains in the sessions table.     *)
C2_OldRowsDeleted ==
    [][\A n \in 0..MaxAgeHours : cleanup_old_sessions(n) =>
            \A sid \in DOMAIN table :
                Before(table[sid].last_accessed, Cutoff(n))
                    => sid \notin DOMAIN table']_vars

(* C2 amended: after cleanup_old_sessions, every record whose last_accessed  *)
(* is older than the cutoff is still in the sessions table, marked inactive  *)
(* (is_active = 0) and otherwise unchanged; no record is removed.            *)
C2_OldRowsMarkedInactive ==
    [][KeepsTimes => \A n \in 0..MaxAgeHours : cleanup_old_sessions(n) =>
            /\ DOMAIN table' = DOMAIN table
            /\ \A sid \in DOMAIN table :
                    Before(table[sid].last_accessed, Cutoff(n))
                        => table'[sid] = [table[sid] EXCEPT !.is_active = FALSE]]_vars

(* C2 witness: an inactive record that still carries its command history.    *)
C2_Witness ==
    \E sid \in DOMAIN table :
        /\ ~ table[sid].is_active
        /\ table[sid].command_history # <<>>

(* C3: in every reachable state of the session store each stored session's   *)
(* command_history holds at most 50 entries.                                 *)
C3_HistoryBounded ==
    \A sid \in DOMAIN table : Len(table[sid].command_history) <= HistoryLimit

----------------------------------------------------------------------------
(* Properties of the message flow *)

(* Who was called for the request, in order: <<callee, task>> *)
CallTrace == [k \in 1..Len(calls) |-> <<calls[k].callee, calls[k].task>>]

(* The agent calls of the first k tasks, in list order *)
TaskCalls(k) == [j \in 1..k |-> <<tasks[j].task_type, j>>]

(* The calls made for task number i *)
CallsFor(i) ==
    {k \in 1..Len(calls) : calls[k].callee \in TaskTypes /\ calls[k].task = i}

TaskListDecision ==
    /\ routing_decision # Null
    /\ routing_decision.decision_type = "task_list"

DirectDecision ==
    /\ routing_decision # Null
    /\ routing_decision.decision_type = "final_response"

(* C4: for a task_list decision the router is called exactly once, then the  *)
(* tasks' agents are called one at a time in list order, each exactly once,  *)
(* then the synthesis agent is called exactly once, after the last task, and *)
(* the result has flow_type task_execution; this holds for an empty task     *)
(* list too.                                                                 *)
C4_PipelineOrder ==
    TaskListDecision =>
        /\ pc \in {"exec", "synth", "tts", "done"}
        /\ pc = "exec" =>
                /\ Len(results) < Len(tasks)
                /\ CallTrace = <<<<"router", 0>>>> \o TaskCalls(Len(results))
        /\ pc = "synth" =>
                CallTrace = <<<<"router", 0>>>> \o TaskCalls(Len(tasks))
        /\ pc = "tts" =>
                /\ CallTrace = <<<<"router", 0>>>> \o TaskCalls(Len(tasks))
                                    \o <<<<"synthesis", 0>>>>
                /\ a2a_result.flow_type = "task_execution"
        /\ pc = "done" =>
                /\ CallTrace = <<<<"router", 0>>>> \o TaskCalls(Len(tasks))
                                    \o <<<<"synthesis", 0>>, <<"tts", 0>>>>
                /\ a2a_result.flow_type = "task_execution"

(* C4 witness: a finished run of two tasks of different types *)
C4_Witness ==
    /\ TaskListDecision
    /\ pc = "done"
    /\ Len(tasks) >= 2
    /\ tasks[1].task_type # tasks[2].task_type

(* C5: when the router returns a final_response decision, no tool agent and  *)
(* no synthesis agent is called, and the result is a direct_response with    *)
(* execution_summary None and the router's response text.                   *)
C5_DirectResponse ==
    DirectDecision =>
        /\ \A k \in 1..Len(calls) :
                calls[k].callee \notin TaskTypes \cup {"synthesis"}
        /\ a2a_result # Null
        /\ a2a_result.flow_type = "direct_response"
        /\ a2a_result.execution_summary = Null
        /\ a2a_result.final_response = routing_decision.response
        /\ results = <<>>

(* C5 witness: a direct answer of the router has been sent *)
C5_Witness ==
    /\ DirectDecision
    /\ pc = "done"
    /\ calls[1].outcome = "final_response"

(* The agent behind call c reported a failure or raised *)
FailedAgentCall(c) ==
    /\ c.callee \in TaskTypes
    /\ \/ c.outcome \notin {"ok", "200"}
       \/ c.callee = "google_assistant" /\ ~ airia_api_key

(* C6: a task whose agent fails or raises is recorded once as a failed       *)
(* TaskResult with an error_message, its agent is not called again, and the  *)
(* run goes on: every later task of the list is executed.                   *)
C6_FailureContinues ==
    \A k \in 1..Len(calls) :
        FailedAgentCall(calls[k]) =>
            LET i == calls[k].task
            IN  /\ i <= Len(results)
                /\ ~ results[i].success
                /\ results[i].error_message # None
                /\ Cardinality(CallsFor(i)) = 1
                /\ pc = "exec" \/ Len(results) = Len(tasks)
                /\ \A j \in (i + 1)..Len(results) : Cardinality(CallsFor(j)) = 1

(* C6 witness: the first of two tasks failed and the second one succeeded *)
C6_Witness ==
    /\ Len(results) >= 2
    /\ FailedAgentCall(calls[2])
    /\ results[2].success
    /\ tasks[1].task_type = "web_use"

(* C7: the summary of execute_tasks has total_tasks = len(tasks) =           *)
(* len(results) = successful_tasks + failed_tasks, and results[i] is the     *)
(* result of tasks[i]: same task_id, same task_type, same order.            *)
C7_SummaryConsistent ==
    (a2a_result # Null /\ a2a_result.execution_summary # Null) =>
        LET summary == a2a_result.execution_summary
        IN  /\ summary.total_tasks = Len(tasks)
            /\ summary.total_tasks = Len(summary.results)
            /\ summary.total_tasks =
                    summary.successful_tasks + summary.failed_tasks
            /\ summary.successful_tasks =
                    Cardinality({i \in 1..Len(summary.results) :
                                    summary.results[i].success})
            /\ \A i \in 1..Len(tasks) :
                    /\ summary.results[i].task_id = tasks[i].task_id
                    /\ summary.results[i].task_type = tasks[i].task_type
                    /\ summary.results[i].task_id # None
                    /\ routing_decision.tasks[i].task_id # None =>
                            summary.results[i].task_id =
                                routing_decision.tasks[i].task_id

(* C7 witness: a summary with one successful and one failed task *)
C7_Witness ==
    /\ a2a_result # Null
    /\ a2a_result.execution_summary # Null
    /\ a2a_result.execution_summary.successful_tasks >= 1
    /\ a2a_result.execution_summary.failed_tasks >= 1

(* An apology that contains the text of error e *)
ApologiesFor(e) ==
    {"I apologize, but I encountered an error processing your request: " \o e,
     "I apologize, but I encountered an error while processing your request: " \o e}

Apologies == UNION {ApologiesFor(e) : e \in ErrorTexts}

(* An exception was raised in routing, in a task agent or in synthesis *)
RaisedIn(callees) ==
    \E k \in 1..Len(calls) :
        /\ calls[k].callee \in callees
        /\ calls[k].outcome \in {"raise", "error", "timeout"}

(* process_message of the orchestrator has returned *)
A2AReturned == a2a_orchestrator /\ pc \in {"tts", "done"} /\ calls # <<>>

A2AFailed ==
    \/ RaisedIn({"router", "synthesis"})
    \/ \E k \in 1..Len(calls) : FailedAgentCall(calls[k])

(* C9: when the A2A flow fails while processing a message and the simple     *)
(* chat model is initialised, process_message falls back to the chat model   *)
(* and returns the chat model's reply.                                      *)
C9_FallbackToChat ==
    (A2AReturned /\ chat_model /\ A2AFailed) =>
        /\ \E k \in 1..Len(calls) : calls[k].callee = "chat"
        /\ a2a_result.final_response = "chat reply"

(* Empty or whitespace-only *)
Blank(m) == \A k \in 1..Len(m) : m[k] \in Whitespace

(* C10: POST /message with an empty or whitespace-only message is rejected   *)
(* with HTTP 400 before any processing: the conversation history is          *)
(* unchanged and neither the A2A flow, the chat model nor TTS is called.     *)
C10_BlankRejected ==
    [][\A m \in Messages : (Blank(m) /\ send_message(m)) =>
            /\ http' = HTTPError(400, "Message cannot be empty")
            /\ conversation_history' = conversation_history
            /\ calls' = <<>>
            /\ a2a_result' = Null
            /\ pc' = "done"]_vars

(* C10 witness: a whitespace-only message was rejected after an earlier      *)
(* request had been answered                                                *)
C10_Witness ==
    /\ http = HTTPError(400, "Message cannot be empty")
    /\ message # <<>>
    /\ conversation_history # <<>>

(* The calls of text-to-speech made for the request *)
TtsCalls == {k \in 1..Len(calls) : calls[k].callee = "tts"}

(* C11: a text-to-speech failure never fails a message: when the TTS call    *)
(* returns no URL or raises, POST /message still returns status success with *)
(* the AI response and audio_url null; TTS is called at most once per        *)
(* request, only after the response text has been produced, and never on the *)
(* error path.                                                               *)
C11_TtsNeverFails ==
    /\ Cardinality(TtsCalls) <= 1
    /\ \A k \in TtsCalls :
            /\ k = Len(calls)
            /\ k > 1
            /\ a2a_result # Null
            /\ pc = "done"
            /\ http = MessageResponse("success", a2a_result.final_response,
                        IF calls[k].outcome = "url" THEN "https://audio" ELSE None)
    /\ (pc = "done" /\ (http.code # 200 \/ http.status = "error"))
            => TtsCalls = {}

(* C11 witness: text-to-speech raised and the reply is a success without     *)
(* audio                                                                     *)
C11_Witness ==
    /\ pc = "done"
    /\ TtsCalls # {}
    /\ calls[Len(calls)].outcome = "raise"
    /\ http.status = "success"
    /\ http.audio_url = None

----------------------------------------------------------------------------
(* Properties of the face controller *)

(* C12: a detected left wink toggles between gesture mode and mouse mode in  *)
(* whichever mode it occurs: on every frame on which detect_wink returns     *)
(* mode_toggle, current_mode switches to the other mode.                     *)
C12_WinkToggles ==
    [][out'.wink = "mode_toggle" => current_mode' # current_mode]_vars

(* C13: every gesture kind is debounced by its own cooldown: two head        *)
(* gestures are at least 1.5 s apart, two wide-eyes gestures are at least    *)
(* 1.5 s apart, two mode-toggle winks are more than 0.8 s apart and two      *)
(* left-click winks are more than 0.8 s apart.                               *)
C13_Debounced ==
    /\ min_gap["head"] # Unset => min_gap["head"][1] >= 15
    /\ min_gap["wide_eyes"] # Unset => min_gap["wide_eyes"][1] >= 15
    /\ min_gap["mode_toggle"] # Unset => min_gap["mode_toggle"][1] > 8
    /\ min_gap["left_click"] # Unset => min_gap["left_click"][1] > 8
    /\ \A k \in Kinds \ Emitted(out) :
            last_emit[k] # Unset => last_emit[k][1] <= clock
    /\ \A k \in Emitted(out) : last_emit[k] = Some(clock)

(* C13 witness: a head gesture and a mode-toggle wink have each been emitted *)
(* a second time                                                             *)
C13_Witness ==
    /\ min_gap["head"] # Unset
    /\ min_gap["mode_toggle"] # Unset

(* C14: after a head gesture in one direction is emitted, no head gesture in *)
(* that direction is emitted until a frame has been processed with the nose  *)
(* inside the reset range (|nose_x - center| < 0.08) or a gesture in the     *)
(* opposite direction has been emitted, even if the head stays turned for    *)
(* longer than the cooldown.                                                 *)
C14_HeadRearm ==
    [][out'.head # None => out'.head # "head_" \o head_blocked]_vars

(* C14 witness: the cooldown of a head gesture to the right is over and the  *)
(* direction is still blocked                                                *)
C14_Witness ==
    /\ head_blocked = "right"
    /\ gesture_active
    /\ clock - last_emit["head"][1] >= 15
    /\ out # NoOut

(* C15: no wide_eyes gesture is emitted until 30 frames have been consumed   *)
(* by eye calibration since start-up or since the last reset_calibration in  *)
(* gesture mode; once calibration has completed, baseline_ear is not         *)
(* modified again until the next reset.                                      *)
C15_CalibrationFirst ==
    [][/\ out'.eyes # None => eye_frames >= 30
       /\ (eye_frames >= 30 /\ eye_frames' # 0) =>
                /\ baseline_ear' = baseline_ear
                /\ eye_frames' = eye_frames]_vars

(* C15 witness: wide eyes are emitted after a calibration that moved the     *)
(* baseline away from the first frame's value                                *)
C15_Witness ==
    /\ out.eyes = "wide_eyes"
    /\ eye_frames = 30
    /\ baseline_ear \notin {Some(e) : e \in Ears}

(* The eye calibration is complete, its baseline is positive and the         *)
(* cooldown of wide eyes is over                                             *)
EyesReady ==
    /\ current_mode = GESTURE_MODE
    /\ eye_frames >= 30
    /\ baseline_ear # Unset
    /\ baseline_ear[1] > 0
    /\ clock - last_wide_eyes_time >= 15

(* C16: once calibrated with a positive baseline and with the cooldown       *)
(* elapsed, wide_eyes is emitted exactly when the average eye aspect ratio   *)
(* is strictly greater than 1.25 times the baseline; a head gesture is       *)
(* emitted only when |nose_x - center| is strictly greater than 0.15.        *)
C16_Cutoffs ==
    [][\A face \in Faces(scenario) :
            ((EyesReady \/ out'.head # None) /\ process_frame(face)) =>
                /\ EyesReady =>
                        (out'.eyes = "wide_eyes" <=>
                            (face.left_ear + face.right_ear) * 100
                                > 2 * 125 * baseline_ear[1])
                /\ out'.head # None =>
                        /\ gesture_center_x # Unset
                        /\ Abs(face.nose_x - gesture_center_x[1]) > 15]_vars

(* C16 witness: wide eyes are emitted over a baseline of 0.32, for which an  *)
(* average of 0.40 is exactly the threshold                                  *)
C16_Witness ==
    /\ out.eyes = "wide_eyes"
    /\ baseline_ear = Some(32)

C18_EscapeToGestureMode ==
    [][handle_key("esc") =>
            /\ current_mode' = GESTURE_MODE
            /\ UNCHANGED <<gesture_center_x, gesture_active,
                           last_gesture_direction, baseline_ear,
                           wide_eyes_calibration_frames>>
            /\ UNCHANGED <<last_mode_toggle, last_gesture_time,
                           last_wide_eyes_time, last_left_click,
                           last_right_click>>]_vars

(* C18 witness: the mode was toggled to mouse mode at start-up and is        *)
(* gesture mode again at the same instant, which a second wink cannot do     *)
C18_Witness ==
    /\ current_mode = GESTURE_MODE
    /\ last_mode_toggle = clock
    /\ clock = StartClock

----------------------------------------------------------------------------
(* Properties of the recogniser *)

Detections(sigs) ==
    {i \in 1..Len(sigs) :
        sigs[i].signal \in {"wake_word_detected", "dictation_detected"}}

WaitingFlags ==
    <<waiting_for_command, waiting_for_orange, waiting_for_dictation>>

(* C19: wake_word_detected and dictation_detected are emitted only by a     *)
(* step that handles a final transcription which arrived while              *)
(* is_processing_backend was false; a partial transcription, and any        *)
(* transcription that arrives while the flag is set, emits neither signal   *)
(* and leaves the three waiting flags as they were.                         *)
C19_OnlyFinalWhileIdle ==
    [][/\ Detections(signals') # {}
            => heard'.kind = "final" /\ ~is_processing_backend
       /\ (heard'.kind = "partial"
            \/ (heard'.kind = "final" /\ is_processing_backend))
            => Detections(signals') = {} /\ UNCHANGED WaitingFlags]_vars

(* A command spoken while the backend is busy, after a wait for a command  *)
(* began and a partial transcription with a wake word went by              *)
C19_Witness ==
    /\ heard = [kind |-> "final", text |-> <<"play">>, processing |-> TRUE]
    /\ waiting_for_command
    /\ current_text_buffer = <<"hey", Space, "flow", Space, "play">>
    /\ signals = <<>>

(* The characters the claim names: commas, exclamation marks, periods and  *)
(* whitespace                                                              *)
LeadingMarks == {",", "!", ".", Space}

(* The positions where a listed variant of the given list ends in the text *)
VariantEnds(patterns, text) ==
    {k \in 1..Len(text) :
        \E n \in 1..Len(patterns), i \in 1..Len(text) :
            MatchEnd(patterns[n], lower(text), i) = k}

HeyFlowEnds(text) == VariantEnds(flow_patterns, text)

OrangeEnds(text) == VariantEnds(orange_patterns, text)

(* What follows position k, and whether it holds more than marks *)
Following(text, k) == SubSeq(text, k + 1, Len(text))

FollowedByText(text, k) ==
    \E j \in (k + 1)..Len(text) : text[j] \notin LeadingMarks

(* t from its first atom that is no leading mark *)
WithoutLeadingMarks(t) ==
    LET keep == {j \in 1..Len(t) : t[j] \notin LeadingMarks}
    IN  IF keep = {} THEN <<>>
        ELSE SubSeq(t, CHOOSE j \in keep : \A m \in keep : j <= m, Len(t))

(* t up to its last atom that is no whitespace *)
WithoutTrailingSpace(t) ==
    LET keep == {j \in 1..Len(t) : t[j] # Space}
    IN  IF keep = {} THEN <<>>
        ELSE SubSeq(t, 1, CHOOSE j \in keep : \A m \in keep : j >= m)

(* The end of the match that decides: of the listed variants that occur,  *)
(* the one listed first, at its leftmost occurrence                       *)
DecidingEnd(text) ==
    LET occurs(n) == {i \in 1..Len(text) :
                        MatchEnd(flow_patterns[n], lower(text), i) # 0}
        listed == {n \in 1..Len(flow_patterns) : occurs(n) # {}}
        n == CHOOSE a \in listed : \A b \in listed : a <= b
        i == CHOOSE a \in occurs(n) : \A b \in occurs(n) : a <= b
    IN  MatchEnd(flow_patterns[n], lower(text), i)

(* The variants in each transcription, worked out once *)
Variants ==
    [text \in Texts |->
        [hey |-> HeyFlowEnds(text),
         orange |-> OrangeEnds(text),
         deciding |-> IF HeyFlowEnds(text) = {} THEN 0 ELSE DecidingEnd(text)]]

(* A final transcription is handled while the backend is not busy *)
FinalHandled == ~is_processing_backend /\ heard'.kind = "final"

NoWaitPending ==
    ~waiting_for_command /\ ~waiting_for_orange /\ ~waiting_for_dictation

(* Hey Flow goes before Orange: no dictation and no wait for dictation    *)
(* comes of a transcription that holds a Hey Flow variant                 *)
HeyFlowFirst(text) ==
    Variants[text].hey # {} =>
        /\ \A i \in 1..Len(signals') :
                signals'[i].signal # "dictation_detected"
        /\ UNCHANGED <<waiting_for_orange, waiting_for_dictation>>

(* Without a wake word and without a wait nothing is emitted *)
SilentWithoutWakeWord(text) ==
    (Variants[text].hey = {} /\ Variants[text].orange = {} /\ NoWaitPending) =>
        signals' = <<>>

(* C20 as stated: a final transcription in which some listed Hey Flow      *)
(* variant is followed by text emits wake_word_detected once, with the     *)
(* text that follows a variant less its leading commas, exclamation marks, *)
(* periods and whitespace; Hey Flow goes before Orange; a final            *)
(* transcription without a wake word, with no wait pending, emits nothing. *)
C20_AnyVariantFollowedByText ==
    [][FinalHandled => LET text == heard'.text IN
        /\ (\E k \in Variants[text].hey : FollowedByText(text, k)) =>
                \E k \in Variants[text].hey :
                    signals' = <<Signal("wake_word_detected",
                                    WithoutLeadingMarks(Following(text, k)))>>
        /\ HeyFlowFirst(text)
        /\ SilentWithoutWakeWord(text)]_vars

(* C20, amended: the variant that decides is the one listed first among    *)
(* those that occur, at its leftmost occurrence.  If text follows that     *)
(* match, wake_word_detected is emitted once with it, less its leading     *)
(* commas, exclamation marks, periods and whitespace and less its trailing *)
(* whitespace; if nothing follows that match nothing is emitted and the    *)
(* recogniser waits for a command, whatever follows another variant.  Hey  *)
(* Flow goes before Orange; a final transcription without a wake word,     *)
(* with no wait pending, emits nothing.                                    *)
C20_FirstListedVariantDecides ==
    [][FinalHandled => LET text == heard'.text IN
        /\ Variants[text].hey # {} =>
                IF FollowedByText(text, Variants[text].deciding)
                THEN signals' = <<Signal("wake_word_detected",
                        WithoutTrailingSpace(WithoutLeadingMarks(
                            Following(text, Variants[text].deciding))))>>
                ELSE /\ Detections(signals') = {}
                     /\ waiting_for_command'
        /\ HeyFlowFirst(text)
        /\ SilentWithoutWakeWord(text)]_vars

(* "Hey, Flow, Play " was heard and "Play" emitted as the command *)
C20_Witness ==
    /\ heard = [kind |-> "final",
                text |-> <<"Hey", ",", Space, "Flow", ",", Space, "Play", Space>>,
                processing |-> FALSE]
    /\ signals = <<Signal("wake_word_detected", <<"Play">>)>>

(* The transcriptions without a listed variant of either wake word *)
NoWakeWord == {text \in Texts :
                Variants[text].hey = {} /\ Variants[text].orange = {}}

(* Those of them that are not empty once stripped *)
Spoken == {text \in NoWakeWord : strip(text) # <<>>}

(* Hey Flow with nothing after the match that decides *)
HeyFlowAlone ==
    {text \in Texts :
        /\ Variants[text].hey # {}
        /\ ~FollowedByText(text, Variants[text].deciding)}

(* Orange, without Hey Flow, with nothing after the match that decides *)
OrangeAlone ==
    {text \in Texts :
        /\ Variants[text].hey = {}
        /\ Variants[text].orange # {}
        /\ ~FollowedByText(text, FirstMatch(orange_patterns, lower(text)))}

Emitted_as(name, sigs) == {i \in 1..Len(sigs) : sigs[i].signal = name}

C22_DictationAfterBareOrange ==
    [][(/\ heard.kind = "final" /\ ~heard.processing
        /\ heard.text \in OrangeAlone
        /\ FinalHandled
        /\ heard'.text \in Spoken)
            => /\ Emitted_as("dictation_detected", signals') # {}
               /\ ~waiting_for_dictation' /\ ~waiting_for_orange']_vars

(* C23: a final transcription without a wake word that is handled more     *)
(* than 10 s after the bare Hey Flow that began the wait for a command is  *)
(* not emitted, and the waiting flags the timeout names are reset.         *)
C23_WaitExpires ==
    [][(/\ FinalHandled
        /\ heard'.text \in NoWakeWord
        /\ waiting_for_command
        /\ wake_word_detected_time # Unset
        /\ wall - wake_word_detected_time[1] > wait_timeout)
            => /\ Detections(signals') = {}
               /\ ~waiting_for_command' /\ ~waiting_for_orange']_vars

----------------------------------------------------------------------------
(* Properties of the playback of the response audio *)

(* C24: while the response audio plays, from play() until the music is no *)
(* longer busy, is_processing_backend is true and neither                 *)
(* wake_word_detected nor dictation_detected is emitted.                  *)
C24_SilentWhilePlaying ==
    [][music_busy' =>
        /\ is_processing_backend'
        /\ music_busy => Detections(signals') = {}]_vars

----------------------------------------------------------------------------
(* Properties of the web agent *)

(* C25: execute_web_task ends with a WebUseResponse, whatever fails; for   *)
(* a request the tool-calling agent runs at most once and, when its run    *)
(* fails or times out, the plain model is called exactly once; if that     *)
(* call fails too, the response has success false, an empty result and an  *)
(* error_message that is not empty, and nothing more was tried.            *)
C25_SingleFallback ==
    /\ agent_runs <= 1 /\ model_calls <= 1
    /\ web_pc = "done" =>
            /\ web_returned # NoResponse
            /\ fallback_reason # "None" => agent_runs = 1 /\ model_calls = 1
            /\ fallback_failed =>
                    /\ ~web_returned.success
                    /\ web_returned.result = <<>>
                    /\ web_returned.error_message # Unset
                    /\ web_returned.error_message # Some("")

(* The agent run timed out and the plain model call raised an exception   *)
(* that says nothing                                                      *)
C25_Witness ==
    /\ web_pc = "done"
    /\ fallback_reason = "TimeoutError"
    /\ fallback_failed
    /\ web_returned = FailureResponse("")
    /\ agent_runs = 1 /\ model_calls = 1

====
